---- MODULE Spec2Model ----
(***************************************************************************)
(* A model of things.py: the query builder of things/database.py and the   *)
(* result shaper of things/api.py, over a small Things database.           *)
(*                                                                         *)
(* Strings are sequences of one-character strings, so that formatting a    *)
(* value into SQL text and reading it back are two different computations. *)
(* Python values carry their type: [t |-> type name, v |-> payload].       *)
(***************************************************************************)
EXTENDS Integers, Sequences, FiniteSets, TLC

VARIABLES db, call, result

vars == <<db, call, result>>

(***************************************************************************)
(* Bounds of the model.                                                    *)
(***************************************************************************)
\* longest value handed to make_filter in SpecFilter
MaxLen == 2
\* most checklist items of one to-do
MaxChecklist == 2
\* stop times and deadlines are drawn from 0 .. MaxHalfDay half days
\* the longest offset text handed to make_date_filter
MaxOffsetLen == 3

\* the largest number a flag column of a row holds
MaxFlag == 2

MaxHalfDay == 2

(***************************************************************************)
(* Sequence helpers.                                                       *)
(***************************************************************************)
Range(s) == {s[i] : i \in DOMAIN s}

\* all sequences over S of length 0 .. n
RECURSIVE SeqsUpTo(_, _)
SeqsUpTo(S, n) ==
    IF n = 0 THEN {<<>>}
    ELSE LET shorter == SeqsUpTo(S, n - 1)
         IN  shorter \cup {Append(s, c) : s \in shorter, c \in S}

\* The elements of the finite set S as a sequence ascending by key[x];
\* elements with equal keys come in an arbitrary but fixed order.
RECURSIVE SortSetBy(_, _)
SortSetBy(S, key) ==
    IF S = {} THEN <<>>
    ELSE LET m == CHOOSE x \in S : \A y \in S : key[x] <= key[y]
         IN  <<m>> \o SortSetBy(S \ {m}, key)

\* The positions of keys, ascending by key; equal keys keep their order.
RECURSIVE StableOrder(_, _)
StableOrder(keys, left) ==
    IF left = {} THEN <<>>
    ELSE LET m == CHOOSE i \in left :
                    \A j \in left : keys[i] < keys[j] \/ (keys[i] = keys[j] /\ i <= j)
         IN  <<m>> \o StableOrder(keys, left \ {m})

\* list.sort(key=...): s ordered ascending by keys[i], the key of s[i]; stable.
StableSort(s, keys) ==
    LET order == StableOrder(keys, DOMAIN s)
    IN  [i \in DOMAIN s |-> s[order[i]]]

\* list.sort(key=..., reverse=True): descending by key, and still stable
\* (elements with equal keys keep their original order).
StableSortReverse(s, keys) ==
    StableSort(s, [i \in DOMAIN keys |-> 0 - keys[i]])

(***************************************************************************)
(* Python values.                                                          *)
(***************************************************************************)
None == [t |-> "NoneType", v |-> <<>>]
PyBool(b) == [t |-> "bool", v |-> b]
PyTrue == PyBool(TRUE)
PyFalse == PyBool(FALSE)
PyStr(s) == [t |-> "str", v |-> s]
PyInt(n) == [t |-> "int", v |-> n]
PyList(s) == [t |-> "list", v |-> s]

\* bool(x)
Truthy(x) ==
    CASE x.t = "NoneType" -> FALSE
      [] x.t = "bool" -> x.v
      [] x.t = "int" -> x.v # 0
      [] OTHER -> x.v # <<>>

\* the number a bool or an int stands for
AsNumber(x) == IF x.t = "bool" THEN (IF x.v THEN 1 ELSE 0) ELSE x.v

\* x == y (and, True == 1 and False == 0 having equal hashes, dict key equality)
PyEq(x, y) ==
    IF x.t \in {"bool", "int"} /\ y.t \in {"bool", "int"}
    THEN AsNumber(x) = AsNumber(y)
    ELSE x.t = y.t /\ x.v = y.v

\* x in list
PyIn(x, list) == \E i \in DOMAIN list : PyEq(x, list[i])

Digit == <<"0", "1", "2", "3", "4", "5", "6", "7", "8", "9">>

\* str(n) for n >= 0
RECURSIVE IntToStr(_)
IntToStr(n) ==
    IF n < 10 THEN <<Digit[n + 1]>>
    ELSE IntToStr(n \div 10) \o <<Digit[(n % 10) + 1]>>

\* f"{value}"
Format(x) ==
    CASE x.t = "str" -> x.v
      [] x.t = "NoneType" -> <<"N", "o", "n", "e">>
      [] x.t = "bool" -> IF x.v THEN <<"T", "r", "u", "e">>
                         ELSE <<"F", "a", "l", "s", "e">>
      [] x.t = "int" -> IntToStr(x.v)

LowerCase == <<"a", "b", "d", "e", "i", "m", "n", "o", "s", "t", "x", "y">>
UpperCase == <<"A", "B", "D", "E", "I", "M", "N", "O", "S", "T", "X", "Y">>

IsLetter(c) == c \in Range(LowerCase) \cup Range(UpperCase)

Upper(c) ==
    IF c \in Range(LowerCase)
    THEN UpperCase[CHOOSE i \in DOMAIN LowerCase : LowerCase[i] = c]
    ELSE c

Lower(c) ==
    IF c \in Range(UpperCase)
    THEN LowerCase[CHOOSE i \in DOMAIN UpperCase : UpperCase[i] = c]
    ELSE c

\* str.title()
Title(s) ==
    [i \in DOMAIN s |->
        IF i = 1 \/ ~IsLetter(s[i - 1]) THEN Upper(s[i]) ELSE Lower(s[i])]

(***************************************************************************)
(* String constants of the program.                                        *)
(***************************************************************************)
S_todo == <<"t", "o", "-", "d", "o">>
S_project == <<"p", "r", "o", "j", "e", "c", "t">>
S_heading == <<"h", "e", "a", "d", "i", "n", "g">>
S_incomplete == <<"i", "n", "c", "o", "m", "p", "l", "e", "t", "e">>
S_canceled == <<"c", "a", "n", "c", "e", "l", "e", "d">>
S_completed == <<"c", "o", "m", "p", "l", "e", "t", "e", "d">>
S_Inbox == <<"I", "n", "b", "o", "x">>
S_Anytime == <<"A", "n", "y", "t", "i", "m", "e">>
S_Someday == <<"S", "o", "m", "e", "d", "a", "y">>
S_index == <<"i", "n", "d", "e", "x">>
S_todayIndex == <<"t", "o", "d", "a", "y", "I", "n", "d", "e", "x">>
S_area == <<"a", "r", "e", "a">>

(***************************************************************************)
(* The database: the tables of the Things store the queries read.  A text  *)
(* column holds a string or NULL, a numeric column a number or NULLNUM.    *)
(***************************************************************************)
NULL == <<"NULL">>
NULLNUM == 0 - 1

\* date(column, "unixepoch"): the calendar day of a time in seconds.  SQLite
\* renders it 'YYYY-MM-DD', which orders as the day number does.
SecondsPerDay == 86400

Date(seconds) == IF seconds = NULLNUM THEN NULLNUM ELSE seconds \div SecondsPerDay

\* datetime(column, "unixepoch", "localtime"): day and second of the day,
\* rendered 'YYYY-MM-DD HH:MM:SS'.
Datetime(seconds) ==
    IF seconds = NULLNUM THEN NULLNUM
    ELSE (seconds \div SecondsPerDay) * 100000 + (seconds % SecondsPerDay)

\* identifiers
P1 == <<"p", "1">>
H1 == <<"h", "1">>
H2 == <<"h", "2">>
T1 == <<"t", "1">>
T2 == <<"t", "2">>
T3 == <<"t", "3">>
A1 == <<"a", "1">>
A2 == <<"a", "2">>
G1 == <<"g", "1">>
G2 == <<"g", "2">>
\* an identifier of nothing in the store
Z9 == <<"z", "9">>
\* the titles of the tags G1 and G2, and a title no tag has
TitleX == <<"x">>
TitleY == <<"y">>
TitleZ == <<"z">>

ChecklistId(i) == <<"c", Digit[i + 1]>>

\* half days since the epoch, in seconds
HalfDay(n) == n * (SecondsPerDay \div 2)

TYPE_TODO == 0
TYPE_PROJECT == 1
TYPE_HEADING == 2
STATUS_INCOMPLETE == 0
STATUS_CANCELED == 2
STATUS_COMPLETED == 3

\* a row of TMTask with nothing set
BlankTask ==
    [type |-> TYPE_TODO, status |-> STATUS_INCOMPLETE, trashed |-> 0, start |-> 1,
     area |-> NULL, project |-> NULL, actionGroup |-> NULL,
     startDate |-> NULLNUM, dueDate |-> NULLNUM, stopDate |-> NULLNUM,
     creationDate |-> 0, userModificationDate |-> 0,
     index |-> 0, todayIndex |-> 0, recurrenceRule |-> NULL,
     title |-> <<>>, notes |-> <<>>]

Places == {"none", "area", "project", "heading"}

\* where a to-do is filed
Placed(row, place) ==
    CASE place = "none" -> row
      [] place = "area" -> [row EXCEPT !.area = A1]
      [] place = "project" -> [row EXCEPT !.project = P1]
      [] place = "heading" -> [row EXCEPT !.actionGroup = H1]

\* the manual orders of the headings and to-dos the stores are built with
Orders ==
    << <<H1, H2, T1, T2>>, <<T1, H1, T2, H2>>,
       <<H2, T2, H1, T1>>, <<T2, T1, H2, H1>> >>

PositionIn(order, id) == CHOOSE i \in DOMAIN order : order[i] = id

\* a completed or canceled task has a stop time, an incomplete one has none
Stopped(row, status, stop) ==
    [row EXCEPT !.status = status,
                !.stopDate = IF status = STATUS_INCOMPLETE THEN NULLNUM ELSE HalfDay(stop)]

Due(row, due) == [row EXCEPT !.dueDate = IF due = NULLNUM THEN NULLNUM ELSE HalfDay(due)]

\* The store a choice k of the varying parts describes: project P1 in area
\* A1 with the headings H1 and H2, and the to-dos T1, T2 and T3.
MakeDb(k) ==
    LET order == Orders[k.order]
        at(id) == PositionIn(order, id)
        base(id, title) ==
            [BlankTask EXCEPT !.index = at(id), !.todayIndex = 5 - at(id),
                              !.title = title]
    IN
    [TMTask |->
        (P1 :> [BlankTask EXCEPT !.type = TYPE_PROJECT, !.area = A1, !.index = 0,
                                 !.todayIndex = 5, !.trashed = k.ptrashed,
                                 !.title = k.ptitle])
        @@ (H1 :> [base(H1, <<"H">>) EXCEPT !.type = TYPE_HEADING, !.project = P1])
        @@ (H2 :> [base(H2, <<"I">>) EXCEPT !.type = TYPE_HEADING, !.project = P1])
        @@ (T1 :> [Due(Stopped(Placed(base(T1, <<"a">>), k.place1), k.status1, k.stop1),
                       k.due1)
                   EXCEPT !.trashed = k.trashed1, !.start = 0])
        @@ (T2 :> [Due(Stopped(Placed(base(T2, <<"b">>), k.place2), k.status2, k.stop2),
                       k.due2)
                   EXCEPT !.startDate = 0])
        @@ (T3 :> [BlankTask EXCEPT !.area = A2, !.index = 5, !.todayIndex = 0,
                                   !.start = 2, !.title = <<"d">>,
                                   !.recurrenceRule = IF k.recurring3 THEN <<"r">>
                                                      ELSE NULL]),
     TMArea |-> (A1 :> [title |-> <<"A">>, index |-> 0])
                @@ (A2 :> [title |-> <<"B">>, index |-> 1]),
     TMTag |-> (G1 :> [title |-> TitleX, shortcut |-> NULL, index |-> 0])
               @@ (G2 :> [title |-> TitleY, shortcut |-> NULL, index |-> 1]),
     TMTaskTag |-> {[tasks |-> T1, tags |-> g] : g \in k.tags1}
                   \cup {[tasks |-> T2, tags |-> G2]},
     TMAreaTag |-> {[areas |-> A1, tags |-> g] : g \in k.atags},
     TMChecklistItem |->
        [c \in {ChecklistId(i) : i \in 1 .. k.nitems} |->
            LET i == CHOOSE j \in 1 .. k.nitems : ChecklistId(j) = c
            IN  [task |-> T1, title |-> <<"c">>, status |-> STATUS_INCOMPLETE,
                 stopDate |-> NULLNUM, userModificationDate |-> 0,
                 index |-> IF k.itemsReversed THEN k.nitems - i ELSE i]]]

DefaultChoice ==
    [order |-> 1, place1 |-> "project", place2 |-> "heading", ptrashed |-> 0,
     ptitle |-> <<"P">>,
     status1 |-> STATUS_INCOMPLETE, stop1 |-> 0, due1 |-> NULLNUM, trashed1 |-> 0,
     status2 |-> STATUS_INCOMPLETE, stop2 |-> 0, due2 |-> NULLNUM,
     recurring3 |-> FALSE, tags1 |-> {G1}, atags |-> {G1}, nitems |-> 0,
     itemsReversed |-> FALSE]

Statuses == {STATUS_INCOMPLETE, STATUS_CANCELED, STATUS_COMPLETED}

\* the stores the model starts from: each family varies some parts of the
\* store and leaves the others as DefaultChoice has them
Choices ==
    \* where the to-dos are filed, and the manual order
    {[DefaultChoice EXCEPT !.order = o, !.place1 = p1, !.place2 = p2] :
        o \in DOMAIN Orders, p1 \in Places, p2 \in Places \ {"area"}}
    \* tags and checklist items of T1
    \cup {[DefaultChoice EXCEPT !.tags1 = g, !.nitems = n, !.itemsReversed = r,
                                !.place1 = p1] :
            g \in SUBSET {G1, G2}, n \in 0 .. MaxChecklist, r \in BOOLEAN,
            p1 \in {"none", "project", "heading"}}
    \* statuses and stop times
    \cup {[DefaultChoice EXCEPT !.status1 = s1, !.stop1 = e1,
                                !.status2 = s2, !.stop2 = e2] :
            s1 \in Statuses \ {STATUS_INCOMPLETE}, e1 \in 0 .. MaxHalfDay,
            s2 \in Statuses, e2 \in 0 .. MaxHalfDay}
    \* deadlines
    \cup {[DefaultChoice EXCEPT !.due1 = d1, !.due2 = d2, !.order = o] :
            d1 \in {NULLNUM} \cup 0 .. MaxHalfDay,
            d2 \in {NULLNUM} \cup 0 .. MaxHalfDay, o \in {1, 4}}
    \* trashed and recurring rows, tags of the area
    \cup {[DefaultChoice EXCEPT !.trashed1 = t, !.ptrashed = pt, !.recurring3 = r,
                                !.atags = g, !.place1 = p1] :
            t \in {0, 1}, pt \in {0, 1}, r \in BOOLEAN, g \in SUBSET {G1, G2},
            p1 \in {"none", "project"}}
    \* a project without a title, trashed or not
    \cup {[DefaultChoice EXCEPT !.ptitle = NULL, !.ptrashed = pt, !.trashed1 = t,
                                !.place1 = p1] :
            pt \in {0, 1}, t \in {0, 1}, p1 \in {"project", "heading"}}

(***************************************************************************)
(* Outcomes of a call: a returned value or a raised exception.             *)
(***************************************************************************)
Ok(v) == [kind |-> "ok", value |-> v]
Raise(exception, info) == [kind |-> exception, value |-> info]
IsOk(outcome) == outcome.kind = "ok"

(***************************************************************************)
(* Python dictionaries are functions on the keys they hold.                *)
(***************************************************************************)
HasKey(dict, key) == key \in DOMAIN dict

\* dict[key] = value
SetKey(dict, key, value) ==
    [x \in DOMAIN dict \cup {key} |-> IF x = key THEN value ELSE dict[x]]

\* Python's binding of keyword arguments to a function's parameters: a
\* keyword the function does not declare raises TypeError, a parameter not
\* given takes its default.
Bind(keywords, defaults) ==
    IF DOMAIN keywords \subseteq DOMAIN defaults
    THEN Ok([p \in DOMAIN defaults |->
                IF p \in DOMAIN keywords THEN keywords[p] ELSE defaults[p]])
    ELSE Raise("TypeError",
               [unexpected |-> DOMAIN keywords \ DOMAIN defaults])

(***************************************************************************)
(* Program constants of database.py.                                       *)
(***************************************************************************)
\* a filter as the dictionaries hold it, "column = number"
ColumnIs(column, number) == <<column, "=", Digit[number + 1]>>

TRASHED_TO_FILTER ==
    << <<PyTrue, ColumnIs("trashed", 1)>>, <<PyFalse, ColumnIs("trashed", 0)>> >>

START_TO_FILTER ==
    << <<PyStr(S_Inbox), ColumnIs("start", 0)>>,
       <<PyStr(S_Anytime), ColumnIs("start", 1)>>,
       <<PyStr(S_Someday), ColumnIs("start", 2)>> >>

STATUS_TO_FILTER ==
    << <<PyStr(S_incomplete), ColumnIs("status", STATUS_INCOMPLETE)>>,
       <<PyStr(S_canceled), ColumnIs("status", STATUS_CANCELED)>>,
       <<PyStr(S_completed), ColumnIs("status", STATUS_COMPLETED)>> >>

TYPE_TO_FILTER ==
    << <<PyStr(S_todo), ColumnIs("type", TYPE_TODO)>>,
       <<PyStr(S_project), ColumnIs("type", TYPE_PROJECT)>>,
       <<PyStr(S_heading), ColumnIs("type", TYPE_HEADING)>> >>

INDICES == <<PyStr(S_index), PyStr(S_todayIndex)>>

COLUMNS_TO_OMIT_IF_NONE ==
    {"area", "area_title", "checklist", "heading", "heading_title", "project",
     "project_title", "trashed", "tags"}

COLUMNS_TO_TRANSFORM_TO_BOOL == {"checklist", "tags", "trashed"}

\* list(dict): the keys in insertion order
Keys(dict) == [i \in DOMAIN dict |-> dict[i][1]]

\* dict.get(key, default); a key is found by ==
DictGet(dict, key, default) ==
    IF \E i \in DOMAIN dict : PyEq(dict[i][1], key)
    THEN dict[CHOOSE i \in DOMAIN dict : PyEq(dict[i][1], key)][2]
    ELSE default

(***************************************************************************)
(* SQL text.  A fragment of a WHERE clause is a sequence of tokens: the    *)
(* key words, column names and numbers are one token each, and a string    *)
(* literal is spelled character by character between its quotes.           *)
(***************************************************************************)
Quote == "\""

\* make_filter(column, value)
make_filter(column, value) ==
    LET default == <<"AND", column, "=", Quote>> \o Format(value) \o <<Quote>>
    IN  DictGet(<< <<None, <<>> >>,
                   <<PyFalse, <<"AND", column, "IS", "NULL">> >>,
                   <<PyTrue, <<"AND", column, "IS", "NOT", "NULL">> >> >>,
                value, default)

\* f"AND TASK.{filter}" when filter is not the empty string
AndTask(filter) ==
    IF filter = <<>> THEN <<>>
    ELSE <<"AND", "TASK." \o filter[1]>> \o Tail(filter)

\* SQLite reading a string literal whose opening quote has been read: the
\* literal ends at the first quote that is not doubled, and a doubled quote
\* stands for one quote character.  [ok, value, rest]; ok is FALSE when the
\* text ends inside the literal.
RECURSIVE LexString(_, _)
LexString(text, sofar) ==
    IF text = <<>> THEN [ok |-> FALSE, value |-> sofar, rest |-> <<>>]
    ELSE IF Head(text) # Quote THEN LexString(Tail(text), Append(sofar, Head(text)))
    ELSE IF Len(text) >= 2 /\ text[2] = Quote
         THEN LexString(Tail(Tail(text)), Append(sofar, Quote))
    ELSE [ok |-> TRUE, value |-> sofar, rest |-> Tail(text)]

IsStringTest(fragment) == Len(fragment) >= 4 /\ fragment[3] = "=" /\ fragment[4] = Quote

\* whether SQLite can prepare a statement holding the fragment: the string
\* literal must end, and no text may follow it within the fragment
WellFormed(fragment) ==
    IsStringTest(fragment) =>
        LET lit == LexString(SubSeq(fragment, 5, Len(fragment)), <<>>)
        IN  lit.ok /\ lit.rest = <<>>

DigitValue(token) == (CHOOSE i \in DOMAIN Digit : Digit[i] = token) - 1

\* the value of a column in a row: SQL NULL, or a string or a number
Cell(v) == [null |-> FALSE, v |-> v]
NullCell == [null |-> TRUE, v |-> <<>>]
TextCell(v) == IF v = NULL THEN NullCell ELSE Cell(v)
NumCell(v) == IF v = NULLNUM THEN NullCell ELSE Cell(v)

\* the number a sequence of decimal digits spells
RECURSIVE NatOf(_)
NatOf(digits) ==
    IF digits = <<>> THEN 0
    ELSE 10 * NatOf(SubSeq(digits, 1, Len(digits) - 1)) + DigitValue(digits[Len(digits)])

\* datetime('now', 'localtime'): the time the query runs at, in seconds
Now == 2 * SecondsPerDay

\* datetime('now', 'localtime', modifier) of SQLite's date functions: the
\* modifier is a sign, a number and a unit, and any other text makes the
\* function return NULL.  (A year is taken as 365 days.)
OffsetDatetime(modifier) ==
    IF /\ Len(modifier) >= 3
       /\ modifier[1] = "-"
       /\ \A i \in 2 .. Len(modifier) - 1 : modifier[i] \in Range(Digit)
       /\ modifier[Len(modifier)] \in {"days", "years"}
    THEN NumCell(Now - NatOf(SubSeq(modifier, 2, Len(modifier) - 1))
                        * (IF modifier[Len(modifier)] = "days" THEN SecondsPerDay
                           ELSE 365 * SecondsPerDay))
    ELSE NullCell

\* A well-formed fragment evaluated with the value its column has in a row.
\* (A comparison with NULL is NULL, which WHERE treats as false.  A string
\* in double quotes that names no column is read as a string literal.)
FragmentHolds(fragment, cell) ==
    CASE fragment = <<>> -> TRUE
      [] fragment[3] = "IS" /\ fragment[4] = "NULL" -> cell.null
      [] fragment[3] = "IS" /\ fragment[4] = "NOT" -> ~cell.null
      [] IsStringTest(fragment) ->
            ~cell.null
            /\ cell.v = LexString(SubSeq(fragment, 5, Len(fragment)), <<>>).value
      [] fragment[3] = ">" ->
            /\ ~cell.null
            /\ ~OffsetDatetime(SubSeq(fragment, 5, Len(fragment))).null
            /\ cell.v > OffsetDatetime(SubSeq(fragment, 5, Len(fragment))).v
      [] OTHER -> ~cell.null /\ cell.v = DigitValue(fragment[4])

(***************************************************************************)
(* The query of make_tasks_sql_query.                                      *)
(***************************************************************************)
\* the row of table with this uuid, for a LEFT OUTER JOIN ... ON x = uuid
Lookup(table, uuid) == IF uuid \in DOMAIN table THEN uuid ELSE NULL

\* FROM TMTask AS TASK LEFT OUTER JOIN ...: one row for each task, each tag
\* it has (or none) and each checklist item it has (or none)
JoinRows(d) ==
    UNION {
        LET task == d.TMTask[u]
            heading == Lookup(d.TMTask, task.actionGroup)
            tags == {tt \in d.TMTaskTag : tt.tasks = u}
            items == {c \in DOMAIN d.TMChecklistItem : d.TMChecklistItem[c].task = u}
        IN  {[TASK |-> u,
              PROJECT |-> Lookup(d.TMTask, task.project),
              AREA |-> Lookup(d.TMArea, task.area),
              HEADING |-> heading,
              HEADPROJ |-> IF heading = NULL THEN NULL
                           ELSE Lookup(d.TMTask, d.TMTask[heading].project),
              TAG |-> tag,
              CHECKLIST_ITEM |-> item] :
                tag \in IF tags = {} THEN {NULL}
                        ELSE {Lookup(d.TMTag, tt.tags) : tt \in tags},
                item \in IF items = {} THEN {NULL} ELSE items}
        : u \in DOMAIN d.TMTask}

\* the columns the WHERE clause of the task query tests
TaskColumn(d, row, column) ==
    LET task == d.TMTask[row.TASK]
    IN  CASE column = "TASK.uuid" -> TextCell(row.TASK)
          [] column = "TASK.area" -> TextCell(task.area)
          [] column = "TASK.project" -> TextCell(task.project)
          [] column = "TASK.actionGroup" -> TextCell(task.actionGroup)
          [] column = "TASK.startDate" -> NumCell(task.startDate)
          [] column = "TASK.dueDate" -> NumCell(task.dueDate)
          [] column = "TASK.creationDate" -> NumCell(task.creationDate)
          [] column = "TASK.type" -> NumCell(task.type)
          [] column = "TASK.status" -> NumCell(task.status)
          [] column = "TASK.start" -> NumCell(task.start)
          [] column = "TASK.trashed" -> NumCell(task.trashed)
          [] column = "TAG.title" ->
                IF row.TAG = NULL THEN NullCell ELSE TextCell(d.TMTag[row.TAG].title)

\* ListingPredicate without its first test: the variant C16 must tell from the code
ListingPredicateOfTemplates(d, row) ==
    /\ (row.PROJECT = NULL \/ d.TMTask[row.PROJECT].title = NULL
            \/ d.TMTask[row.PROJECT].trashed = 0)
    /\ (row.HEADPROJ = NULL \/ d.TMTask[row.HEADPROJ].title = NULL
            \/ d.TMTask[row.HEADPROJ].trashed = 0)

\* TASK.recurrenceRule IS NULL
\* AND (PROJECT.title IS NULL OR PROJECT.trashed = 0)
\* AND (HEADPROJ.title IS NULL OR HEADPROJ.trashed = 0)
ListingPredicate(d, row) ==
    /\ d.TMTask[row.TASK].recurrenceRule = NULL
    /\ (row.PROJECT = NULL \/ d.TMTask[row.PROJECT].title = NULL
            \/ d.TMTask[row.PROJECT].trashed = 0)
    /\ (row.HEADPROJ = NULL \/ d.TMTask[row.HEADPROJ].title = NULL
            \/ d.TMTask[row.HEADPROJ].trashed = 0)

\* A WHERE clause is [listing, fragments]: whether it opens with the
\* predicate above (or with TRUE), and the fragments that follow.
WhereHolds(d, row, where) ==
    /\ where.listing => ListingPredicate(d, row)
    /\ \A i \in DOMAIN where.fragments :
            FragmentHolds(where.fragments[i], TaskColumn(d, row, where.fragments[i][2]))

TypeName(type) ==
    CASE type = TYPE_TODO -> S_todo
      [] type = TYPE_PROJECT -> S_project
      [] type = TYPE_HEADING -> S_heading
      [] OTHER -> NULL

StatusName(status) ==
    CASE status = STATUS_INCOMPLETE -> S_incomplete
      [] status = STATUS_CANCELED -> S_canceled
      [] status = STATUS_COMPLETED -> S_completed
      [] OTHER -> NULL

StartName(start) ==
    CASE start = 0 -> S_Inbox
      [] start = 1 -> S_Anytime
      [] start = 2 -> S_Someday
      [] OTHER -> NULL

TitleOf(table, uuid) == IF uuid = NULL THEN NULL ELSE table[uuid].title

\* SelectTask with the tag of the row in place of the flag: the variant C19
\* must tell from the code
SelectTaskPerTag(d, row) ==
    LET task == d.TMTask[row.TASK]
    IN  [uuid |-> row.TASK,
         type |-> TypeName(task.type),
         trashed |-> IF task.trashed = 1 THEN 1 ELSE NULLNUM,
         title |-> task.title,
         status |-> StatusName(task.status),
         area |-> row.AREA,
         area_title |-> TitleOf(d.TMArea, row.AREA),
         project |-> row.PROJECT,
         project_title |-> TitleOf(d.TMTask, row.PROJECT),
         heading |-> row.HEADING,
         heading_title |-> TitleOf(d.TMTask, row.HEADING),
         notes |-> task.notes,
         tags |-> IF row.TAG # NULL THEN d.TMTag[row.TAG].index + 1 ELSE NULLNUM,
         start |-> StartName(task.start),
         checklist |-> IF row.CHECKLIST_ITEM # NULL THEN 1 ELSE NULLNUM,
         start_date |-> Date(task.startDate),
         deadline |-> Date(task.dueDate),
         stop_date |-> Date(task.stopDate),
         created |-> Datetime(task.creationDate),
         modified |-> Datetime(task.userModificationDate),
         index |-> task.index,
         today_index |-> task.todayIndex]

\* the SELECT list of the task query, for one row of the join
SelectTask(d, row) ==
    LET task == d.TMTask[row.TASK]
    IN  [uuid |-> row.TASK,
         type |-> TypeName(task.type),
         trashed |-> IF task.trashed = 1 THEN 1 ELSE NULLNUM,
         title |-> task.title,
         status |-> StatusName(task.status),
         area |-> row.AREA,
         area_title |-> TitleOf(d.TMArea, row.AREA),
         project |-> row.PROJECT,
         project_title |-> TitleOf(d.TMTask, row.PROJECT),
         heading |-> row.HEADING,
         heading_title |-> TitleOf(d.TMTask, row.HEADING),
         notes |-> task.notes,
         tags |-> IF row.TAG # NULL THEN 1 ELSE NULLNUM,
         start |-> StartName(task.start),
         checklist |-> IF row.CHECKLIST_ITEM # NULL THEN 1 ELSE NULLNUM,
         start_date |-> Date(task.startDate),
         deadline |-> Date(task.dueDate),
         stop_date |-> Date(task.stopDate),
         created |-> Datetime(task.creationDate),
         modified |-> Datetime(task.userModificationDate),
         index |-> task.index,
         today_index |-> task.todayIndex]

\* the columns of a result whose values are numbers
NumericColumns ==
    {"trashed", "tags", "checklist", "start_date", "deadline", "stop_date",
     "created", "modified", "index", "today_index"}

IsNone(column, value) ==
    IF column \in NumericColumns THEN value = NULLNUM ELSE value = NULL

\* dict_factory leaving out every None: the variant C14 must tell from the code
dict_factory_omit_none(row) ==
    LET kept == {key \in DOMAIN row : ~IsNone(key, row[key])}
    IN  [key \in kept |->
            IF key \in COLUMNS_TO_TRANSFORM_TO_BOOL
            THEN (IF row[key] # 0 THEN PyTrue ELSE PyInt(row[key]))
            ELSE row[key]]

\* dict_factory(cursor, row)
dict_factory(row) ==
    LET kept == {key \in DOMAIN row :
                    ~(IsNone(key, row[key]) /\ key \in COLUMNS_TO_OMIT_IF_NONE)}
    IN  [key \in kept |->
            IF key \in COLUMNS_TO_TRANSFORM_TO_BOOL
            THEN (IF IsNone(key, row[key]) THEN None
                  ELSE IF row[key] # 0 THEN PyTrue
                  ELSE PyInt(row[key]))
            ELSE row[key]]

\* rows in ascending order of the index column, or of the today index
OrderRows(rows, order) ==
    SortSetBy(rows, [r \in rows |-> IF order = S_todayIndex THEN r.today_index
                                    ELSE r.index])

\* SELECT DISTINCT ... WHERE where ORDER BY TASK.<order>: the distinct rows
\* of the result, in order
TaskQuery(d, where, order) ==
    OrderRows({SelectTask(d, row) : row \in {r \in JoinRows(d) : WhereHolds(d, r, where)}},
              order)

(***************************************************************************)
(* Sequencing: what follows a call runs on its value, unless it raised.    *)
(***************************************************************************)
Then(outcome, F(_)) == IF IsOk(outcome) THEN F(outcome.value) ELSE outcome

With(value, F(_)) == F(value)

(***************************************************************************)
(* Validation.                                                             *)
(***************************************************************************)
\* validate(parameter, argument, valid_arguments)
validate(parameter, argument, valid_arguments) ==
    IF PyIn(argument, valid_arguments) THEN Ok(None)
    ELSE Raise("ValueError",
               [parameter |-> parameter, argument |-> argument,
                valid_arguments |-> valid_arguments])

\* validate_offset(parameter, argument)
validate_offset(parameter, argument) ==
    IF argument = None THEN Ok(None)
    ELSE IF argument.t # "str"
    THEN Raise("ValueError", [parameter |-> parameter, argument |-> argument,
                              valid_arguments |-> <<>>])
    ELSE IF argument.v = <<>> \/ argument.v[Len(argument.v)] \notin {"d", "w", "y"}
    THEN Raise("ValueError", [parameter |-> parameter, argument |-> argument,
                              valid_arguments |-> <<>>])
    ELSE Ok(None)

\* int(text) of Python, for texts of digits, letters and the minus sign: an
\* optional sign and at least one digit, anything else raises ValueError
int(text) ==
    IF text # <<>> /\ text[1] = "-"
    THEN IF Len(text) >= 2 /\ \A i \in 2 .. Len(text) : text[i] \in Range(Digit)
         THEN Ok(0 - NatOf(Tail(text)))
         ELSE Raise("ValueError", [parameter |-> "int", argument |-> PyStr(text),
                                   valid_arguments |-> <<>>])
    ELSE IF text # <<>> /\ \A i \in DOMAIN text : text[i] \in Range(Digit)
         THEN Ok(NatOf(text))
         ELSE Raise("ValueError", [parameter |-> "int", argument |-> PyStr(text),
                                   valid_arguments |-> <<>>])

\* f"{number}" of an int
FormatInt(number) ==
    IF number < 0 THEN <<"-">> \o IntToStr(0 - number) ELSE IntToStr(number)

\* the modifier make_date_filter writes for a number and a suffix
Modifier(number, suffix) ==
    CASE suffix = "d" -> <<"-">> \o FormatInt(number) \o <<"days">>
      [] suffix = "w" -> <<"-">> \o FormatInt(number * 7) \o <<"days">>
      [] suffix = "y" -> <<"-">> \o FormatInt(number) \o <<"years">>

\* make_date_filter(date_column, offset):
\* AND datetime(date_column, ...) > datetime('now', 'localtime', modifier)
make_date_filter(date_column, offset) ==
    IF offset = None THEN Ok(<<>>)
    ELSE Then(validate_offset("offset", offset), LAMBDA valid :
         Then(int(SubSeq(offset.v, 1, Len(offset.v) - 1)), LAMBDA number :
            Ok(<<"AND", date_column, ">", "now">>
                    \o Modifier(number, offset.v[Len(offset.v)]))))

\* the first outcome of the sequence that is an exception, or the last one
RECURSIVE FirstRaised(_)
FirstRaised(outcomes) ==
    IF Len(outcomes) = 1 \/ ~IsOk(Head(outcomes)) THEN Head(outcomes)
    ELSE FirstRaised(Tail(outcomes))

(***************************************************************************)
(* Database: the methods that read the store.                              *)
(***************************************************************************)
\* execute_query: a statement SQLite cannot prepare ends the process
\* (sqlite3.OperationalError, then sys.exit(2))
SqlError == Raise("SystemExit", [parameter |-> "sql"])

\* the titles of a set of tags, in the order of the tags' index
TitlesByIndex(d, tagged) ==
    With(SortSetBy(tagged, [g \in tagged |-> d.TMTag[g].index]),
         LAMBDA sorted : [i \in DOMAIN sorted |-> d.TMTag[sorted[i]].title])

\* get_tags(titles_only=True): SELECT title FROM TMTag ORDER BY "index"
get_tag_titles(d) == TitlesByIndex(d, DOMAIN d.TMTag)

\* get_tags_of_task(task_uuid): the titles of the task's tags, by tag index
get_tags_of_task(d, task_uuid) ==
    TitlesByIndex(d, {tt.tags : tt \in {x \in d.TMTaskTag : x.tasks = task_uuid}}
                        \cap DOMAIN d.TMTag)

\* get_tags_of_area(area_uuid)
get_tags_of_area(d, area_uuid) ==
    TitlesByIndex(d, {at.tags : at \in {x \in d.TMAreaTag : x.areas = area_uuid}}
                        \cap DOMAIN d.TMTag)

\* get_checklist_items's parameter and its default
ChecklistParameters == [todo_uuid |-> None]

S_checklist_item == <<"c", "h", "e", "c", "k", "l", "i", "s", "t", "-", "i", "t", "e", "m">>

\* the SELECT list of the checklist query
SelectChecklistItem(d, uuid) ==
    [title |-> d.TMChecklistItem[uuid].title,
     status |-> StatusName(d.TMChecklistItem[uuid].status),
     stop_date |-> Date(d.TMChecklistItem[uuid].stopDate),
     type |-> S_checklist_item,
     uuid |-> uuid,
     created |-> Datetime(d.TMChecklistItem[uuid].userModificationDate),
     modified |-> Datetime(d.TMChecklistItem[uuid].userModificationDate)]

\* WHERE CHECKLIST_ITEM.task = ? ORDER BY CHECKLIST_ITEM."index"
ChecklistQuery(d, todo) ==
    With({c \in DOMAIN d.TMChecklistItem :
            todo.t = "str" /\ d.TMChecklistItem[c].task = todo.v},
         LAMBDA items :
            With(SortSetBy(items, [c \in items |-> d.TMChecklistItem[c].index]),
                 LAMBDA sorted :
                    [i \in DOMAIN sorted |-> SelectChecklistItem(d, sorted[i])]))

\* get_checklist_items taking the to-do by any keyword: the variant C18 must
\* tell from the code
get_checklist_items_of(d, keywords) ==
    Ok(ChecklistQuery(d, keywords[CHOOSE key \in DOMAIN keywords : TRUE]))

\* get_checklist_items(**keywords): the items of the to-do by their index
get_checklist_items(d, keywords) ==
    Then(Bind(keywords, ChecklistParameters),
         LAMBDA a : Ok(ChecklistQuery(d, a.todo_uuid)))

\* SELECT COUNT(tags) FROM (sql): the variant C7 must tell from the code
get_count_of_tags(rows) == Cardinality({i \in DOMAIN rows : rows[i].tags # NULLNUM})

\* get_count(sql): SELECT COUNT(uuid) FROM (sql), the rows whose uuid is set
get_count(rows) == Cardinality({i \in DOMAIN rows : rows[i].uuid # NULL})

\* the rows as dict_factory hands them over
Dicts(rows) == [i \in DOMAIN rows |-> dict_factory(rows[i])]

\* get_tasks's parameters and their defaults
TaskParameters ==
    [uuid |-> None, type |-> None, status |-> None, start |-> None, area |-> None,
     project |-> None, heading |-> None, tag |-> None, start_date |-> None,
     deadline |-> None, trashed |-> PyFalse, last |-> None, search_query |-> None,
     index |-> PyStr(S_index), count_only |-> PyFalse]

\* start and start.title()
StartTitled(start) ==
    IF ~Truthy(start) THEN Ok(start)
    ELSE IF start.t = "str" THEN Ok(PyStr(Title(start.v)))
    ELSE Raise("AttributeError", [parameter |-> "start"])

\* the WHERE clause get_tasks builds from its arguments, start being titled
\* up to the date filter, which RunTaskQuery appends
\* (search_query is None in every call made here, for which
\* make_search_filter returns the empty string)
TaskWhere(a, start) ==
    IF Truthy(a.uuid)
    THEN [listing |-> FALSE, fragments |-> <<make_filter("TASK.uuid", a.uuid)>>]
    ELSE [listing |-> TRUE,
          fragments |->
            <<AndTask(DictGet(TRASHED_TO_FILTER, a.trashed, <<>>)),
              AndTask(DictGet(TYPE_TO_FILTER, a.type, <<>>)),
              AndTask(DictGet(START_TO_FILTER, start, <<>>)),
              AndTask(DictGet(STATUS_TO_FILTER, a.status, <<>>)),
              make_filter("TASK.uuid", a.uuid),
              make_filter("TASK.area", a.area),
              make_filter("TASK.project", a.project),
              make_filter("TASK.actionGroup", a.heading),
              make_filter("TASK.startDate", a.start_date),
              make_filter("TASK.dueDate", a.deadline),
              make_filter("TAG.title", a.tag)>>]

\* the rows of a query, or their count when count_only
RowsOrCount(rows, count_only) ==
    IF Truthy(count_only) THEN Ok(get_count(rows)) ELSE Ok(Dicts(rows))

\* the query of get_tasks run: its rows, or its count when count_only
RunTaskQuery(d, a, start) ==
    Then(IF Truthy(a.uuid) THEN Ok(<<>>)
         ELSE make_date_filter("TASK.creationDate", a.last),
         LAMBDA dated :
            With([TaskWhere(a, start) EXCEPT !.fragments = @ \o <<dated>>],
                 LAMBDA where :
                    IF \E i \in DOMAIN where.fragments : ~WellFormed(where.fragments[i])
                    THEN SqlError
                    ELSE RowsOrCount(TaskQuery(d, where, Format(a.index)),
                                     a.count_only)))

\* [None] + list(titles)
NoneOrTitle(titles) == <<None>> \o [i \in DOMAIN titles |-> PyStr(titles[i])]

\* the validation of get_tasks that reads no table, start being titled
ValidateEnumerated(a, start) ==
    FirstRaised(<<
        validate("type", a.type, <<None>> \o Keys(TYPE_TO_FILTER)),
        validate("status", a.status, <<None>> \o Keys(STATUS_TO_FILTER)),
        validate("start", start, <<None>> \o Keys(START_TO_FILTER)),
        validate("index", a.index, INDICES),
        validate_offset("last", a.last) >>)

\* if tag is not None: validate it against get_tags(titles_only=True)
ValidateTag(d, a) ==
    IF a.tag # None THEN validate("tag", a.tag, NoneOrTitle(get_tag_titles(d)))
    ELSE Ok(None)

\* the validation of get_tasks, start being titled
ValidateTaskArguments(d, a, start) ==
    FirstRaised(<<ValidateEnumerated(a, start), ValidateTag(d, a)>>)

\* MustExist without the check: the variant C4 must tell from the code
MustExistUnchecked(counted, uuid) == counted

\* raise ValueError unless the count of rows with the uuid is not zero
MustExist(counted, uuid) ==
    Then(counted,
         LAMBDA count :
            IF count = 0
            THEN Raise("ValueError", [parameter |-> "uuid", argument |-> uuid,
                                      valid_arguments |-> <<>>])
            ELSE Ok(count))

\* Database.get_tasks(**a), a being the arguments bound to the parameters
RECURSIVE get_tasks(_, _)
get_tasks(d, a) ==
    Then(StartTitled(a.start), LAMBDA start :
    Then(ValidateTaskArguments(d, a, start), LAMBDA valid :
    Then(IF Truthy(a.uuid) /\ a.count_only = PyFalse
         THEN MustExist(get_tasks(d, [TaskParameters EXCEPT !.uuid = a.uuid,
                                                          !.count_only = PyTrue]),
                        a.uuid)
         ELSE Ok(1),
         LAMBDA found : RunTaskQuery(d, a, start))))

\* FROM TMArea AS AREA LEFT OUTER JOIN TMAreaTag ... LEFT OUTER JOIN TMTag
AreaJoinRows(d) ==
    UNION {
        {[AREA |-> u, AREA_TAG |-> pair[1], TAG |-> pair[2]] :
            pair \in
                IF \E at \in d.TMAreaTag : at.areas = u
                THEN {<<at.areas, Lookup(d.TMTag, at.tags)>> :
                        at \in {x \in d.TMAreaTag : x.areas = u}}
                ELSE {<<NULL, NULL>>}}
        : u \in DOMAIN d.TMArea}

AreaColumn(d, row, column) ==
    CASE column = "AREA.uuid" -> TextCell(row.AREA)
      [] column = "TAG.title" ->
            IF row.TAG = NULL THEN NullCell ELSE TextCell(d.TMTag[row.TAG].title)

\* the SELECT list of the area query
SelectArea(d, row) ==
    [uuid |-> row.AREA,
     type |-> S_area,
     title |-> d.TMArea[row.AREA].title,
     tags |-> IF row.AREA_TAG # NULL THEN 1 ELSE NULLNUM]

\* get_areas's parameters and their defaults
AreaParameters == [uuid |-> None, tag |-> None, count_only |-> PyFalse]

\* WHERE TRUE {tag filter} {uuid filter}
AreaWhere(a) == <<make_filter("TAG.title", a.tag), make_filter("AREA.uuid", a.uuid)>>

\* SELECT DISTINCT ... ORDER BY AREA."index"
AreaQuery(d, fragments) ==
    With({SelectArea(d, row) :
            row \in {r \in AreaJoinRows(d) :
                        \A i \in DOMAIN fragments :
                            FragmentHolds(fragments[i],
                                          AreaColumn(d, r, fragments[i][2]))}},
         LAMBDA rows : SortSetBy(rows, [r \in rows |-> d.TMArea[r.uuid].index]))

\* the query of get_areas run: its rows, or its count when count_only
RunAreaQuery(d, a) ==
    With(AreaWhere(a),
         LAMBDA fragments :
            IF \E i \in DOMAIN fragments : ~WellFormed(fragments[i]) THEN SqlError
            ELSE RowsOrCount(AreaQuery(d, fragments), a.count_only))

\* Database.get_areas(**a)
RECURSIVE get_areas(_, _)
get_areas(d, a) ==
    Then(IF a.tag # None THEN validate("tag", a.tag, NoneOrTitle(get_tag_titles(d)))
         ELSE Ok(None),
         LAMBDA valid :
    Then(IF Truthy(a.uuid) /\ a.count_only = PyFalse
         THEN MustExist(get_areas(d, [AreaParameters EXCEPT !.uuid = a.uuid,
                                                          !.count_only = PyTrue]),
                        a.uuid)
         ELSE Ok(1),
         LAMBDA found : RunAreaQuery(d, a)))

\* get_tags's parameters and their defaults
TagParameters == [title |-> None, area |-> None, task |-> None, titles_only |-> PyFalse]

S_tag == <<"t", "a", "g">>

\* SELECT uuid, 'tag' AS type, title, shortcut FROM TMTag
SelectTag(d, uuid) ==
    [uuid |-> uuid, type |-> S_tag, title |-> d.TMTag[uuid].title,
     shortcut |-> d.TMTag[uuid].shortcut]

\* WHERE TRUE {fragment} ORDER BY "index", the rows through dict_factory
TagQuery(d, fragment) ==
    With({g \in DOMAIN d.TMTag : FragmentHolds(fragment, TextCell(d.TMTag[g].title))},
         LAMBDA found :
            With(SortSetBy(found, [g \in found |-> d.TMTag[g].index]),
                 LAMBDA sorted :
                    [i \in DOMAIN sorted |-> dict_factory(SelectTag(d, sorted[i]))]))

\* the tag query of get_tags run
RunTagQuery(d, fragment) ==
    IF ~WellFormed(fragment) THEN SqlError ELSE Ok(TagQuery(d, fragment))

\* Database.get_tags(**a)
get_tags(d, a) ==
    Then(IF a.title # None
         THEN validate("title", a.title, NoneOrTitle(get_tag_titles(d)))
         ELSE Ok(None),
         LAMBDA valid :
            IF Truthy(a.task)
            THEN Ok(IF a.task.t = "str" THEN get_tags_of_task(d, a.task.v) ELSE <<>>)
            ELSE IF Truthy(a.area)
            THEN Ok(IF a.area.t = "str" THEN get_tags_of_area(d, a.area.v) ELSE <<>>)
            ELSE IF Truthy(a.titles_only) THEN Ok(get_tag_titles(d))
            ELSE RunTagQuery(d, make_filter("title", a.title)))

(***************************************************************************)
(* api.py.                                                                 *)
(***************************************************************************)
\* the characters in the order of their code points
CodePoints ==
    <<Quote, "-", "0", "1", "2", "3", "4", "5", "6", "7", "8", "9",
      "A", "B", "C", "D", "E", "F", "G", "H", "I", "J", "K", "L", "M",
      "N", "O", "P", "Q", "R", "S", "T", "U", "V", "W", "X", "Y", "Z",
      "a", "b", "c", "d", "e", "f", "g", "h", "i", "j", "k", "l", "m",
      "n", "o", "p", "q", "r", "s", "t", "u", "v", "w", "x", "y", "z">>

Ord(c) == CHOOSE i \in DOMAIN CodePoints : CodePoints[i] = c

\* x < y for strings
RECURSIVE StrLess(_, _)
StrLess(x, y) ==
    IF y = <<>> THEN FALSE
    ELSE IF x = <<>> THEN TRUE
    ELSE IF Head(x) = Head(y) THEN StrLess(Tail(x), Tail(y))
    ELSE Ord(Head(x)) < Ord(Head(y))

\* string keys as numbers that order as the strings do
StrRanks(keys) ==
    [i \in DOMAIN keys |->
        Cardinality({k \in Range(keys) : StrLess(k, keys[i])})]

\* kwargs without one key
Without(kwargs, key) == [k \in DOMAIN kwargs \ {key} |-> kwargs[k]]

\* kwargs.get(key)
Get(kwargs, key) == IF key \in DOMAIN kwargs THEN kwargs[key] ELSE None

\* task["tags"] = database.get_tags(task=task["uuid"]), if task.get("tags")
TagsOfTask(d, task) ==
    IF Truthy(Get(task, "tags"))
    THEN SetKey(task, "tags", PyList(get_tags_of_task(d, task.uuid)))
    ELSE task

\* SortItems without reverse=True: the variant C3 must tell from the code
SortItemsAscending(items) ==
    StableSort(items, StrRanks([i \in DOMAIN items |-> items[i].type]))

\* items.sort(key=lambda item: item["type"], reverse=True)
SortItems(items) ==
    StableSortReverse(items, StrRanks([i \in DOMAIN items |-> items[i].type]))

\* the keywords tasks hands to get_tasks
TaskKeywords(uuid, kwargs) ==
    [uuid |-> uuid,
     status |-> IF "status" \in DOMAIN kwargs THEN kwargs.status
                ELSE PyStr(S_incomplete)]
    @@ Without(kwargs, "status")

\* IncludeItems without the overwrite: the variant C5 must tell from the code
IncludeItemsAsPassed(uuid, include_items, rows) == include_items

\* include_items, overwritten when a single to-do or heading is fetched
IncludeItems(uuid, include_items, rows) ==
    include_items \/ (Truthy(uuid) /\ rows[1].type \in {S_todo, S_heading})

RECURSIVE tasks(_, _, _, _)
RECURSIVE ShapeTasks(_, _, _)
RECURSIVE IncludeItemsOf(_, _)

\* the items of a task included
IncludeItemsOf(d, task) ==
    IF task.type = S_todo
    THEN IF Truthy(Get(task, "checklist"))
         THEN Then(get_checklist_items(d, [task_uuid |-> PyStr(task.uuid)]),
                   LAMBDA items : Ok(SetKey(task, "checklist", PyList(items))))
         ELSE Ok(task)
    ELSE IF task.type = S_project
    THEN Then(tasks(d, None, TRUE, [project |-> PyStr(task.uuid)]),
              LAMBDA items : Ok(SetKey(task, "items", SortItems(items))))
    ELSE IF task.type = S_heading
    THEN Then(tasks(d, None, TRUE,
                    [type |-> PyStr(S_todo), heading |-> PyStr(task.uuid)]),
              LAMBDA items : Ok(SetKey(task, "items", items)))
    ELSE Ok(task)

\* the body of the loop of tasks for one task
ShapeTask(d, row, include_items) ==
    IF include_items THEN IncludeItemsOf(d, TagsOfTask(d, row))
    ELSE Ok(TagsOfTask(d, row))

\* the loop of tasks: the tasks shaped in order, up to the first exception
ShapeTasks(d, rows, include_items) ==
    IF rows = <<>> THEN Ok(<<>>)
    ELSE Then(ShapeTask(d, Head(rows), include_items), LAMBDA first :
         Then(ShapeTasks(d, Tail(rows), include_items), LAMBDA rest :
         Ok(<<first>> \o rest)))

\* result[0] if uuid, else result
FirstIf(uuid, list) ==
    IF ~Truthy(uuid) THEN Ok(list)
    ELSE IF list = <<>> THEN Raise("IndexError", [parameter |-> "result"])
    ELSE Ok(list[1])

\* tasks(uuid=None, include_items=False, **kwargs)
tasks(d, uuid, include_items, kwargs) ==
    Then(Bind(TaskKeywords(uuid, kwargs), TaskParameters), LAMBDA a :
    Then(get_tasks(d, a), LAMBDA rows :
        IF Truthy(Get(kwargs, "count_only")) THEN Ok(rows)
        ELSE IF Truthy(uuid) /\ rows = <<>>
        THEN Raise("IndexError", [parameter |-> "result"])
        ELSE Then(ShapeTasks(d, rows, IncludeItems(uuid, include_items, rows)),
                  LAMBDA shaped : FirstIf(uuid, shaped))))

\* area["tags"] = database.get_tags(area=area["uuid"]), if area.get("tags")
TagsOfArea(d, area) ==
    IF Truthy(Get(area, "tags"))
    THEN SetKey(area, "tags", PyList(get_tags_of_area(d, area.uuid)))
    ELSE area

\* the body of the loop of areas for one area
ShapeArea(d, row, include_items) ==
    IF include_items
    THEN Then(tasks(d, None, TRUE, [area |-> PyStr(row.uuid)]),
              LAMBDA items : Ok(SetKey(TagsOfArea(d, row), "items", items)))
    ELSE Ok(TagsOfArea(d, row))

\* the loop of areas
RECURSIVE ShapeAreas(_, _, _)
ShapeAreas(d, rows, include_items) ==
    IF rows = <<>> THEN Ok(<<>>)
    ELSE Then(ShapeArea(d, Head(rows), include_items), LAMBDA first :
         Then(ShapeAreas(d, Tail(rows), include_items), LAMBDA rest :
         Ok(<<first>> \o rest)))

\* areas(uuid=None, include_items=False, **kwargs)
areas(d, uuid, include_items, kwargs) ==
    Then(Bind([uuid |-> uuid] @@ kwargs, AreaParameters), LAMBDA a :
    Then(get_areas(d, a), LAMBDA rows :
        IF Truthy(Get(kwargs, "count_only")) THEN Ok(rows)
        ELSE Then(ShapeAreas(d, rows, include_items),
                  LAMBDA shaped : FirstIf(uuid, shaped))))

\* ShapeTag with the tasks first: the variant C12 must tell from the code
ShapeTagTasksFirst(d, tag) ==
    Then(areas(d, None, FALSE, [tag |-> PyStr(tag.title)]), LAMBDA tagged_areas :
    Then(tasks(d, None, FALSE, [tag |-> PyStr(tag.title)]), LAMBDA tagged_tasks :
    Ok(SetKey(tag, "items", tagged_tasks \o tagged_areas))))

\* tag["items"] = [*areas(tag=tag_title), *tasks(tag=tag_title)]
ShapeTag(d, tag) ==
    Then(areas(d, None, FALSE, [tag |-> PyStr(tag.title)]), LAMBDA tagged_areas :
    Then(tasks(d, None, FALSE, [tag |-> PyStr(tag.title)]), LAMBDA tagged_tasks :
    Ok(SetKey(tag, "items", tagged_areas \o tagged_tasks))))

\* the loop of tags
RECURSIVE ShapeTags(_, _, _)
ShapeTags(d, rows, include_items) ==
    IF rows = <<>> \/ ~include_items THEN Ok(rows)
    ELSE Then(ShapeTag(d, Head(rows)), LAMBDA first :
         Then(ShapeTags(d, Tail(rows), include_items), LAMBDA rest :
         Ok(<<first>> \o rest)))

\* tags(title=None, include_items=False, **kwargs)
tags(d, title, include_items, kwargs) ==
    Then(Bind([title |-> title] @@ kwargs, TagParameters), LAMBDA a :
    Then(get_tags(d, a), LAMBDA rows :
    Then(ShapeTags(d, rows, include_items), LAMBDA shaped :
    FirstIf(title, shaped))))

\* for tag in tags(**kwargs): if tag["uuid"] == uuid: return tag
\* and, the loop over, return default
RECURSIVE ScanTags(_, _, _)
ScanTags(list, uuid, default) ==
    IF list = <<>> THEN Ok(default)
    ELSE IF uuid.t = "str" /\ Head(list).uuid = uuid.v THEN Ok(Head(list))
    ELSE ScanTags(Tail(list), uuid, default)

\* try: return found / except ValueError: the rest of get
Except(found, Rest(_)) == IF found.kind = "ValueError" THEN Rest(found) ELSE found

\* get(uuid, default=None, **kwargs)
get(d, uuid, default, kwargs) ==
    Except(tasks(d, uuid, FALSE, kwargs), LAMBDA no_task :
    Except(areas(d, uuid, FALSE, kwargs), LAMBDA no_area :
    Then(tags(d, None, FALSE, kwargs), LAMBDA list : ScanTags(list, uuid, default))))

\* list.sort(key=lambda task: task[key]) of dates, which are strings or None;
\* comparing None raises TypeError, a task without the key KeyError
SortByDate(list, key, reverse) ==
    IF \E i \in DOMAIN list : ~HasKey(list[i], key)
    THEN Raise("KeyError", [parameter |-> key])
    ELSE IF Len(list) >= 2 /\ \E i \in DOMAIN list : list[i][key] = NULLNUM
    THEN Raise("TypeError", [parameter |-> key])
    ELSE IF reverse
    THEN Ok(StableSortReverse(list, [i \in DOMAIN list |-> list[i][key]]))
    ELSE Ok(StableSort(list, [i \in DOMAIN list |-> list[i][key]]))

\* canceled(**kwargs)
canceled(d, kwargs) == tasks(d, None, FALSE, [status |-> PyStr(S_canceled)] @@ kwargs)

\* completed(**kwargs)
completed(d, kwargs) == tasks(d, None, FALSE, [status |-> PyStr(S_completed)] @@ kwargs)

\* logbook(**kwargs)
logbook(d, kwargs) ==
    Then(canceled(d, kwargs), LAMBDA c :
    Then(completed(d, kwargs), LAMBDA f :
    SortByDate(c \o f, "stop_date", TRUE)))

\* due(**kwargs)
due(d, kwargs) ==
    Then(tasks(d, None, FALSE, [due_date |-> PyTrue] @@ kwargs),
         LAMBDA listed : SortByDate(listed, "due_date", FALSE))

(***************************************************************************)
(* The calls the model makes.                                              *)
(***************************************************************************)
NoKwargs == [k \in {} |-> None]

Kw(key, value) == key :> value

\* identifiers handed to the lookups by uuid: of tasks, of an area, of a
\* tag, and of nothing
UuidArguments == <<P1, H1, H2, T1, T2, T3, A1, A2, G1, Z9>>

\* the filters of the task listing, one at a time, with legal values and
\* with values outside the legal sets
TaskFilters ==
    <<NoKwargs,
      Kw("type", PyStr(S_todo)), Kw("type", PyStr(S_project)),
      Kw("type", PyStr(S_heading)), Kw("type", PyStr(<<"t", "o", "d", "o">>)),
      Kw("status", None), Kw("status", PyStr(S_canceled)),
      Kw("status", PyStr(S_completed)), Kw("status", PyStr(<<"d", "o", "n", "e">>)),
      Kw("start", PyStr(S_Inbox)), Kw("start", PyStr(S_Anytime)),
      Kw("start", PyStr(S_Someday)), Kw("start", PyStr(<<"i", "n", "b", "o", "x">>)),
      Kw("start", PyStr(<<"T", "o", "d", "a", "y">>)),
      Kw("trashed", PyTrue), Kw("trashed", None),
      Kw("trashed", PyStr(<<"y", "e", "s">>)),
      Kw("area", PyTrue), Kw("area", PyFalse), Kw("area", PyStr(A1)),
      Kw("area", PyStr(Z9)),
      Kw("project", PyTrue), Kw("project", PyFalse), Kw("project", PyStr(P1)),
      Kw("heading", PyTrue), Kw("heading", PyFalse), Kw("heading", PyStr(H1)),
      Kw("tag", PyTrue), Kw("tag", PyFalse), Kw("tag", PyStr(TitleX)),
      Kw("tag", PyStr(TitleY)), Kw("tag", PyStr(TitleZ)),
      Kw("start_date", PyTrue), Kw("start_date", PyFalse),
      Kw("deadline", PyTrue), Kw("deadline", PyFalse),
      Kw("index", PyStr(S_todayIndex)), Kw("index", PyStr(<<"x">>)),
      Kw("status", None) @@ Kw("trashed", None),
      Kw("status", None) @@ Kw("tag", PyStr(TitleX)) @@ Kw("project", PyStr(P1))>>

\* the filters of the area listing
AreaFilters ==
    <<NoKwargs, Kw("tag", PyTrue), Kw("tag", PyFalse), Kw("tag", PyStr(TitleX)),
      Kw("tag", PyStr(TitleY)), Kw("tag", PyStr(TitleZ))>>

\* whether to count, and whether to include the items
Modes ==
    {[count_only |-> FALSE, include_items |-> FALSE],
     [count_only |-> FALSE, include_items |-> TRUE],
     [count_only |-> TRUE, include_items |-> FALSE]}

Counting(kwargs, mode) ==
    IF mode.count_only THEN Kw("count_only", PyTrue) @@ kwargs ELSE kwargs

Init ==
    /\ \E k \in Choices : db = MakeDb(k)
    /\ call = [op |-> "none"]
    /\ result = Ok(None)

\* tasks(**filters), listing or counting
ListTasks ==
    /\ call.op = "none"
    /\ \E i \in DOMAIN TaskFilters, mode \in Modes :
        /\ call' = [op |-> "tasks", uuid |-> None, include_items |-> mode.include_items,
                    kwargs |-> Counting(TaskFilters[i], mode)]
        /\ result' = tasks(db, None, mode.include_items, Counting(TaskFilters[i], mode))
        /\ UNCHANGED db

\* tasks(uuid=...)
FetchTask ==
    /\ call.op = "none"
    /\ \E i \in DOMAIN UuidArguments, mode \in Modes :
        /\ call' = [op |-> "tasks", uuid |-> PyStr(UuidArguments[i]),
                    include_items |-> mode.include_items,
                    kwargs |-> Counting(NoKwargs, mode)]
        /\ result' = tasks(db, PyStr(UuidArguments[i]), mode.include_items,
                           Counting(NoKwargs, mode))
        /\ UNCHANGED db

\* areas(**filters), listing or counting
ListAreas ==
    /\ call.op = "none"
    /\ \E i \in DOMAIN AreaFilters, mode \in Modes :
        /\ call' = [op |-> "areas", uuid |-> None, include_items |-> mode.include_items,
                    kwargs |-> Counting(AreaFilters[i], mode)]
        /\ result' = areas(db, None, mode.include_items, Counting(AreaFilters[i], mode))
        /\ UNCHANGED db

\* areas(uuid=...)
FetchArea ==
    /\ call.op = "none"
    /\ \E i \in DOMAIN UuidArguments, mode \in Modes :
        /\ call' = [op |-> "areas", uuid |-> PyStr(UuidArguments[i]),
                    include_items |-> mode.include_items,
                    kwargs |-> Counting(NoKwargs, mode)]
        /\ result' = areas(db, PyStr(UuidArguments[i]), mode.include_items,
                           Counting(NoKwargs, mode))
        /\ UNCHANGED db

\* the titles handed to tags: none, the titles of the store's tags, and
\* the title of no tag
TagTitles == {None, PyStr(TitleX), PyStr(TitleY), PyStr(TitleZ)}

\* tags(), tags(title=...), with and without the items
ListTags ==
    /\ call.op = "none"
    /\ \E title \in TagTitles, include_items \in BOOLEAN :
        /\ call' = [op |-> "tags", uuid |-> None, title |-> title,
                    include_items |-> include_items, kwargs |-> NoKwargs]
        /\ result' = tags(db, title, include_items, NoKwargs)
        /\ UNCHANGED db

\* the defaults handed to get
Defaults == {None, PyStr(<<"n">>)}

\* get(uuid), get(uuid, default)
GetObject ==
    /\ call.op = "none"
    /\ \E i \in DOMAIN UuidArguments, default \in Defaults :
        /\ call' = [op |-> "get", uuid |-> PyStr(UuidArguments[i]), default |-> default,
                    include_items |-> FALSE, kwargs |-> NoKwargs]
        /\ result' = get(db, PyStr(UuidArguments[i]), default, NoKwargs)
        /\ UNCHANGED db

\* logbook()
Logbook ==
    /\ call.op = "none"
    /\ call' = [op |-> "logbook", uuid |-> None, include_items |-> FALSE,
                kwargs |-> NoKwargs]
    /\ result' = logbook(db, NoKwargs)
    /\ UNCHANGED db

\* due()
DueTasks ==
    /\ call.op = "none"
    /\ call' = [op |-> "due", uuid |-> None, include_items |-> FALSE,
                kwargs |-> NoKwargs]
    /\ result' = due(db, NoKwargs)
    /\ UNCHANGED db

\* the call returns to the caller, which may call again
Return ==
    /\ call.op # "none"
    /\ call' = [op |-> "none"]
    /\ result' = Ok(None)
    /\ UNCHANGED db

Next ==
    \/ ListTasks
    \/ FetchTask
    \/ ListAreas
    \/ FetchArea
    \/ ListTags
    \/ GetObject
    \/ Logbook
    \/ DueTasks
    \/ Return

Spec == Init /\ [][Next]_vars

(***************************************************************************)
(* make_filter on its own: a table of one to-do whose area column holds    *)
(* NULL or any short text, read by a query whose WHERE clause is the       *)
(* fragment make_filter returns.                                           *)
(***************************************************************************)
FilterAlphabet == {"a", Quote}

FilterTexts == SeqsUpTo(FilterAlphabet, MaxLen)

FilterValues ==
    {None, PyTrue, PyFalse, PyInt(0), PyInt(1)} \cup {PyStr(s) : s \in FilterTexts}

FilterStore(v) == [TMTask |-> (T1 :> [BlankTask EXCEPT !.area = v])]

\* SELECT uuid FROM TMTask AS TASK WHERE TRUE {fragment}: the uuids found,
\* unless SQLite cannot prepare the statement
SelectWhere(d, fragment) ==
    IF ~WellFormed(fragment) THEN SqlError
    ELSE Ok({u \in DOMAIN d.TMTask :
                FragmentHolds(fragment, TaskColumn(d, [TASK |-> u], "TASK.area"))})

FilterInit ==
    /\ \E v \in FilterTexts \cup {NULL} : db = FilterStore(v)
    /\ call = [op |-> "none"]
    /\ result = Ok(None)

\* make_filter("TASK.area", value), and the query with its fragment
ApplyFilter ==
    /\ call.op = "none"
    /\ \E value \in FilterValues :
        /\ call' = [op |-> "make_filter", value |-> value,
                    fragment |-> make_filter("TASK.area", value)]
        /\ result' = SelectWhere(db, make_filter("TASK.area", value))
        /\ UNCHANGED db

FilterNext ==
    \/ ApplyFilter
    \/ Return

SpecFilter == FilterInit /\ [][FilterNext]_vars

(***************************************************************************)
(* The relative-date offsets: make_date_filter on its own, and get_tasks   *)
(* with the offset as its last filter, with and without a uuid.            *)
(***************************************************************************)
OffsetAlphabet == {"0", "3", "-", "x", "d", "w", "y"}

Offsets ==
    {None, PyInt(3), PyTrue} \cup {PyStr(s) : s \in SeqsUpTo(OffsetAlphabet, MaxOffsetLen)}

OffsetInit ==
    /\ db = MakeDb(DefaultChoice)
    /\ call = [op |-> "none"]
    /\ result = Ok(None)

\* make_date_filter("TASK.creationDate", offset)
DateFilter ==
    /\ call.op = "none"
    /\ \E offset \in Offsets :
        /\ call' = [op |-> "make_date_filter", uuid |-> None, offset |-> offset]
        /\ result' = make_date_filter("TASK.creationDate", offset)
        /\ UNCHANGED db

\* get_tasks(last=offset) and get_tasks(uuid=..., last=offset)
ListLast ==
    /\ call.op = "none"
    /\ \E offset \in Offsets, uuid \in {None, PyStr(T1)} :
        /\ call' = [op |-> "get_tasks", uuid |-> uuid, offset |-> offset]
        /\ result' = get_tasks(db, [TaskParameters EXCEPT !.uuid = uuid,
                                                         !.last = offset])
        /\ UNCHANGED db

OffsetNext ==
    \/ DateFilter
    \/ ListLast
    \/ Return

SpecOffset == OffsetInit /\ [][OffsetNext]_vars

(***************************************************************************)
(* dict_factory on its own, on rows of a cursor with two text columns, the *)
(* three flag columns and a date column, holding NULL or a value.          *)
(***************************************************************************)
Flags == {NULLNUM} \cup 0 .. MaxFlag

Rows ==
    [area : {NULL, A1}, title : {NULL, <<"a">>}, trashed : Flags, tags : Flags,
     checklist : Flags, start_date : {NULLNUM, 0}]

RowInit ==
    /\ db = MakeDb(DefaultChoice)
    /\ call = [op |-> "none"]
    /\ result = Ok(None)

\* dict_factory(cursor, row)
ConvertRow ==
    /\ call.op = "none"
    /\ \E row \in Rows :
        /\ call' = [op |-> "dict_factory", row |-> row]
        /\ result' = Ok(dict_factory(row))
        /\ UNCHANGED db

RowNext ==
    \/ ConvertRow
    \/ Return

SpecRows == RowInit /\ [][RowNext]_vars

(***************************************************************************)
(* get_tasks step by step: the call advances through its validation, the   *)
(* lookup of the tag titles, the check that the uuid exists, the assembly  *)
(* of the WHERE clause and the query, and counts the queries it has run.   *)
(***************************************************************************)
StepArguments ==
    {[TaskParameters EXCEPT !.type = type, !.last = last, !.tag = tag, !.uuid = uuid] :
        type \in {None, PyStr(S_todo), PyStr(<<"t", "o", "d", "o">>)},
        last \in {None, PyStr(<<"3", "d">>), PyStr(<<"3", "x">>), PyStr(<<"x", "d">>)},
        tag \in {None, PyStr(TitleX), PyStr(TitleZ)},
        uuid \in {None, PyStr(T1), PyStr(Z9)}}

\* the call moved on to the next step, or ended by an exception
Advance(outcome, pc, queries) ==
    /\ call' = [call EXCEPT !.pc = IF IsOk(outcome) THEN pc ELSE "done",
                            !.queries = queries]
    /\ result' = IF IsOk(outcome) /\ pc # "done" THEN result ELSE outcome
    /\ UNCHANGED db

\* get_tasks(**a) is entered
StepCall ==
    /\ call.op = "none"
    /\ \E a \in StepArguments :
            call' = [op |-> "get_tasks", pc |-> "validate", a |-> a, queries |-> 0]
    /\ result' = Ok(None)
    /\ UNCHANGED db

\* start.title() and the validation of type, status, start, index and last
StepValidate ==
    /\ call.op = "get_tasks" /\ call.pc = "validate"
    /\ Advance(Then(StartTitled(call.a.start),
                    LAMBDA start : ValidateEnumerated(call.a, start)),
               "tag", call.queries)

\* the validation of the tag, which reads the tag titles
StepValidateTag ==
    /\ call.op = "get_tasks" /\ call.pc = "tag"
    /\ Advance(ValidateTag(db, call.a), "exists",
               IF call.a.tag # None THEN call.queries + 1 ELSE call.queries)

\* if uuid: the count of the tasks with the uuid, and ValueError if none
StepExists ==
    /\ call.op = "get_tasks" /\ call.pc = "exists"
    /\ IF Truthy(call.a.uuid) /\ call.a.count_only = PyFalse
       THEN Advance(MustExist(get_tasks(db, [TaskParameters EXCEPT
                                                !.uuid = call.a.uuid,
                                                !.count_only = PyTrue]),
                              call.a.uuid),
                    "where", call.queries + 1)
       ELSE Advance(Ok(1), "where", call.queries)

\* the WHERE clause is written, the date filter included
StepWhere ==
    /\ call.op = "get_tasks" /\ call.pc = "where"
    /\ Advance(IF Truthy(call.a.uuid) THEN Ok(<<>>)
               ELSE make_date_filter("TASK.creationDate", call.a.last),
               "query", call.queries)

\* the query is run
StepQuery ==
    /\ call.op = "get_tasks" /\ call.pc = "query"
    /\ Advance(Then(StartTitled(call.a.start),
                    LAMBDA start : RunTaskQuery(db, call.a, start)),
               "done", call.queries + 1)

\* get_tasks returns or raises to its caller
StepReturn ==
    /\ call.op = "get_tasks" /\ call.pc = "done"
    /\ call' = [op |-> "none"]
    /\ result' = Ok(None)
    /\ UNCHANGED db

StepInit ==
    /\ \E place \in Places : db = MakeDb([DefaultChoice EXCEPT !.place1 = place])
    /\ call = [op |-> "none"]
    /\ result = Ok(None)

StepNext ==
    \/ StepCall
    \/ StepValidate
    \/ StepValidateTag
    \/ StepExists
    \/ StepWhere
    \/ StepQuery
    \/ StepReturn

SpecSteps == StepInit /\ [][StepNext]_vars

(***************************************************************************)
(* What the calls are expected to do, stated on the store and the results. *)
(***************************************************************************)
\* the call is tasks(...) or areas(...) returning rows, not a count
Listing(op) == call.op = op /\ "count_only" \notin DOMAIN call.kwargs

Uuids(list) == [i \in DOMAIN list |-> list[i].uuid]

\* the checklist items of a to-do in the store
ItemsOf(d, todo) ==
    {c \in DOMAIN d.TMChecklistItem : d.TMChecklistItem[c].task = todo}

\* the list holds exactly the items of the to-do, ascending by their index
IsChecklistOf(d, todo, list) ==
    /\ Len(list) = Cardinality(ItemsOf(d, todo))
    /\ Range(Uuids(list)) = ItemsOf(d, todo)
    /\ \A i, j \in DOMAIN list :
            i < j => d.TMChecklistItem[list[i].uuid].index
                        <= d.TMChecklistItem[list[j].uuid].index

\* C1: tasks(include_items=True) returns, and every to-do returned that has
\* checklist items carries under 'checklist' exactly its items in ascending
\* order of their index.
C1_ChecklistAttached ==
    (Listing("tasks") /\ call.uuid = None /\ call.include_items
        /\ call.kwargs = NoKwargs) =>
        /\ IsOk(result)
        /\ \A n \in DOMAIN result.value :
                (result.value[n].type = S_todo
                    /\ ItemsOf(db, result.value[n].uuid) # {}) =>
                    /\ HasKey(result.value[n], "checklist")
                    /\ result.value[n].checklist.t = "list"
                    /\ IsChecklistOf(db, result.value[n].uuid,
                                     result.value[n].checklist.v)

\* the incomplete tasks not in the trash that have a deadline
DueReference(d) ==
    {u \in DOMAIN d.TMTask :
        /\ d.TMTask[u].status = STATUS_INCOMPLETE
        /\ d.TMTask[u].trashed = 0
        /\ d.TMTask[u].dueDate # NULLNUM}

\* C2: due() returns exactly the incomplete tasks outside the trash that
\* have a deadline, and a task with an earlier deadline precedes every task
\* with a later one.
C2_DueSorted ==
    call.op = "due" =>
        /\ IsOk(result)
        /\ Range(Uuids(result.value)) = DueReference(db)
        /\ \A i, j \in DOMAIN result.value :
                Date(db.TMTask[result.value[i].uuid].dueDate)
                    < Date(db.TMTask[result.value[j].uuid].dueDate) => i < j

\* the projects of a list of tasks that carry their items
ExpandedProjects(list) ==
    {list[n] : n \in {m \in DOMAIN list :
                        list[m].type = S_project /\ HasKey(list[m], "items")}}

\* the projects with items in the result of the call
ProjectsReturned ==
    IF call.op = "tasks"
    THEN ExpandedProjects(IF call.uuid = None THEN result.value ELSE <<result.value>>)
    ELSE UNION {ExpandedProjects(area.items) :
                    area \in {a \in Range(IF call.uuid = None THEN result.value
                                          ELSE <<result.value>>) :
                                HasKey(a, "items")}}

\* no heading before a child that is no heading, and index order among the
\* headings and among the others
HeadingsLast(items) ==
    \A i, j \in DOMAIN items :
        i < j =>
            /\ ~(items[i].type = S_heading /\ items[j].type # S_heading)
            /\ ((items[i].type = S_heading) = (items[j].type = S_heading)
                    => db.TMTask[items[i].uuid].index <= db.TMTask[items[j].uuid].index)

\* C3: in the items of every project returned with its items, the children
\* that are no headings come before the headings, and the headings, and the
\* others, are in the order of their index.
C3_HeadingsLast ==
    ((Listing("tasks") \/ Listing("areas")) /\ IsOk(result)) =>
        \A project \in ProjectsReturned : HeadingsLast(project.items)

\* C3 happens: a project is returned whose items hold two headings and a
\* to-do that the index orders after a heading
C3_Reordered ==
    /\ Listing("tasks")
    /\ IsOk(result)
    /\ \E project \in ProjectsReturned :
        /\ Cardinality({i \in DOMAIN project.items :
                            project.items[i].type = S_heading}) = 2
        /\ \E i, j \in DOMAIN project.items :
            /\ project.items[i].type = S_todo
            /\ project.items[j].type = S_heading
            /\ db.TMTask[project.items[i].uuid].index
                    > db.TMTask[project.items[j].uuid].index

\* C4: tasks(uuid=id) raises ValueError for an id of no task, and
\* areas(uuid=id) raises ValueError for an id of no area.
C4_NotFound ==
    /\ (Listing("tasks") /\ call.uuid # None /\ call.uuid.v \notin DOMAIN db.TMTask)
            => result.kind = "ValueError"
    /\ (Listing("areas") /\ call.uuid # None /\ call.uuid.v \notin DOMAIN db.TMArea)
            => result.kind = "ValueError"

\* C4 happens: a task is asked for by the id of an area, and an area by the
\* id of a task
C4_Missing ==
    /\ \/ (Listing("tasks") /\ call.uuid = PyStr(A1))
       \/ (Listing("areas") /\ call.uuid = PyStr(T1))
    /\ result.kind = "ValueError"
    /\ result.value.argument = call.uuid

\* C5: tasks(uuid=id) for a to-do or a heading gives what
\* tasks(uuid=id, include_items=True) gives, whatever include_items is; for
\* a project the items are there only when include_items=True is passed.
C5_ImplicitItems ==
    (Listing("tasks") /\ call.uuid # None /\ call.uuid.v \in DOMAIN db.TMTask) =>
        IF db.TMTask[call.uuid.v].type \in {TYPE_TODO, TYPE_HEADING}
        THEN result = tasks(db, call.uuid, TRUE, call.kwargs)
        ELSE IF call.include_items
        THEN IsOk(result) => HasKey(result.value, "items")
        ELSE IsOk(result) /\ ~HasKey(result.value, "items")

\* C5 happens: a heading with a to-do under it is fetched without
\* include_items, and comes with the to-do
C5_HeadingExpanded ==
    /\ Listing("tasks")
    /\ call.uuid = PyStr(H1)
    /\ ~call.include_items
    /\ IsOk(result)
    /\ HasKey(result.value, "items")
    /\ result.value.items # <<>>

\* the canceled and the completed tasks outside the trash
LogbookReference(d) ==
    {u \in DOMAIN d.TMTask :
        /\ d.TMTask[u].status \in {STATUS_CANCELED, STATUS_COMPLETED}
        /\ d.TMTask[u].trashed = 0}

\* C6: logbook() returns exactly the canceled and the completed tasks, and
\* a task stopped later precedes every task stopped earlier, on the same
\* day too.
C6_LogbookSorted ==
    call.op = "logbook" =>
        /\ IsOk(result)
        /\ Range(Uuids(result.value)) = LogbookReference(db)
        /\ \A i, j \in DOMAIN result.value :
                db.TMTask[result.value[i].uuid].stopDate
                    < db.TMTask[result.value[j].uuid].stopDate => j < i

\* C7: with count_only=True, tasks(**filters) and areas(**filters) return
\* the length of what they return without it, whenever that is a list.
C7_CountIsLength ==
    (call.op \in {"tasks", "areas"} /\ call.uuid = None
        /\ "count_only" \in DOMAIN call.kwargs) =>
        LET filters == Without(call.kwargs, "count_only")
            listed == IF call.op = "tasks" THEN tasks(db, None, FALSE, filters)
                      ELSE areas(db, None, FALSE, filters)
        IN  IsOk(listed) => result = Ok(Len(listed.value))

\* C7 happens: tasks are counted, among them a to-do with two tags, which
\* the join holds twice
C7_Counted ==
    /\ call.op = "tasks"
    /\ call.uuid = None
    /\ "count_only" \in DOMAIN call.kwargs
    /\ IsOk(result)
    /\ result.value >= 2
    /\ Cardinality({tt \in db.TMTaskTag : tt.tasks = T1}) = 2
    /\ T1 \in Range(Uuids(tasks(db, None, FALSE, Without(call.kwargs, "count_only")).value))

\* the legal values of the enumerated filters
LegalValues(parameter) ==
    CASE parameter = "type" -> {None, PyStr(S_todo), PyStr(S_project), PyStr(S_heading)}
      [] parameter = "status" ->
            {None, PyStr(S_incomplete), PyStr(S_canceled), PyStr(S_completed)}
      [] parameter = "start" -> {None, PyStr(S_Inbox), PyStr(S_Anytime), PyStr(S_Someday)}
      [] parameter = "trashed" -> {None, PyTrue, PyFalse}

\* C8: a legal value of type, status, start or trashed is accepted, and any
\* other value raises ValueError naming the parameter, the value and the
\* legal values.
C8_EnumeratedValidated ==
    (Listing("tasks") /\ call.uuid = None /\ ~call.include_items
        /\ \E p \in {"type", "status", "start", "trashed"} : DOMAIN call.kwargs = {p}) =>
        LET p == CHOOSE q \in DOMAIN call.kwargs : TRUE
        IN  IF call.kwargs[p] \in LegalValues(p) THEN IsOk(result)
            ELSE /\ result.kind = "ValueError"
                 /\ result.value.parameter = p
                 /\ result.value.argument = call.kwargs[p]
                 /\ Range(result.value.valid_arguments) = LegalValues(p)

\* the titles of the tags of a task
TagTitlesOf(d, u) ==
    {d.TMTag[tt.tags].title : tt \in {x \in d.TMTaskTag : x.tasks = u}}

\* whether task u has the membership the filter asks for
HasMembership(d, u, parameter, value) ==
    LET held == CASE parameter = "area" -> d.TMTask[u].area
                  [] parameter = "project" -> d.TMTask[u].project
                  [] parameter = "heading" -> d.TMTask[u].actionGroup
                  [] parameter = "tag" -> NULL
        none == IF parameter = "tag" THEN TagTitlesOf(d, u) = {} ELSE held = NULL
    IN  CASE value = None -> TRUE
          [] value = PyTrue -> ~none
          [] value = PyFalse -> none
          [] OTHER -> IF parameter = "tag" THEN value.v \in TagTitlesOf(d, u)
                      ELSE held = value.v

\* C9: tasks(area=v), tasks(project=v), tasks(heading=v) and tasks(tag=v),
\* for v None, True, False or a value in use, return, and return the tasks
\* of tasks() that have the membership v asks for.
C9_MembershipForms ==
    (Listing("tasks") /\ call.uuid = None /\ ~call.include_items
        /\ \E p \in {"area", "project", "heading", "tag"} : DOMAIN call.kwargs = {p}
        /\ (DOMAIN call.kwargs = {"tag"} /\ call.kwargs.tag.t = "str"
                => call.kwargs.tag.v \in Range(get_tag_titles(db)))) =>
        LET p == CHOOSE q \in DOMAIN call.kwargs : TRUE
            all == Uuids(tasks(db, None, FALSE, NoKwargs).value)
        IN  /\ IsOk(result)
            /\ Uuids(result.value)
                = SelectSeq(all, LAMBDA u : HasMembership(db, u, p, call.kwargs[p]))

\* C10: make_filter(column, None) is the empty fragment and constrains
\* nothing, True asks for a value, False for none, and any other value for
\* exactly the rows whose column is that value.
C10_FilterExact ==
    call.op = "make_filter" =>
        CASE call.value = None -> call.fragment = <<>> /\ result = Ok({T1})
          [] call.value = PyTrue ->
                result = Ok(IF db.TMTask[T1].area # NULL THEN {T1} ELSE {})
          [] call.value = PyFalse ->
                result = Ok(IF db.TMTask[T1].area = NULL THEN {T1} ELSE {})
          [] OTHER ->
                result = Ok(IF db.TMTask[T1].area = Format(call.value) THEN {T1}
                            ELSE {})

\* the offsets of the documented form: None, or a non-negative integer
\* followed by one of the units d, w, y
IsOffset(offset) ==
    \/ offset = None
    \/ /\ offset.t = "str"
       /\ Len(offset.v) >= 2
       /\ offset.v[Len(offset.v)] \in {"d", "w", "y"}
       /\ \A i \in 1 .. Len(offset.v) - 1 : offset.v[i] \in Range(Digit)

\* C11: make_date_filter and the last filter of get_tasks accept an offset
\* only if it is None or a non-negative integer followed by one of d, w, y;
\* every other offset raises ValueError and yields no predicate and no rows.
C11_OffsetsChecked ==
    call.op \in {"make_date_filter", "get_tasks"} =>
        IF IsOffset(call.offset) THEN IsOk(result) ELSE result.kind = "ValueError"

\* the areas and the tasks a tag of the given title is attached to
AreasTagged(d, title) ==
    {at.areas : at \in {x \in d.TMAreaTag : d.TMTag[x.tags].title = title}}

TasksTagged(d, title) ==
    {tt.tasks : tt \in {x \in d.TMTaskTag : d.TMTag[x.tags].title = title}}

\* the items are areas up to some position and tasks after it
AreasFirst(items) ==
    \E k \in 0 .. Len(items) :
        /\ \A i \in 1 .. k : items[i].type = S_area
        /\ \A i \in k + 1 .. Len(items) : items[i].type # S_area

\* an incomplete task that is not trashed, not a recurring template and not
\* in a trashed project
IsOpen(d, u) ==
    /\ d.TMTask[u].status = STATUS_INCOMPLETE
    /\ d.TMTask[u].trashed = 0
    /\ d.TMTask[u].recurrenceRule = NULL
    /\ d.TMTask[u].project # NULL => d.TMTask[d.TMTask[u].project].trashed = 0
    /\ d.TMTask[u].actionGroup # NULL =>
            d.TMTask[d.TMTask[d.TMTask[u].actionGroup].project].trashed = 0

\* a call tags(title=t, include_items=True) with t the title of a tag
ExpandsTag ==
    /\ call.op = "tags"
    /\ call.include_items
    /\ call.title # None
    /\ \E g \in DOMAIN db.TMTag : db.TMTag[g].title = call.title.v

C13_GetFinds ==
    call.op = "get" =>
        /\ IsOk(result)
        /\ IF call.uuid.v \in DOMAIN db.TMTask
           THEN /\ result.value.uuid = call.uuid.v
                /\ result.value.type \in {S_todo, S_project, S_heading}
           ELSE IF call.uuid.v \in DOMAIN db.TMArea
           THEN result.value.uuid = call.uuid.v /\ result.value.type = S_area
           ELSE IF call.uuid.v \in DOMAIN db.TMTag
           THEN result.value.uuid = call.uuid.v /\ result.value.type = S_tag
           ELSE result.value = call.default

\* a null column of the omit-if-null set is absent from the mapping, and a
\* null column outside the set is kept as a null
NullsOmittedOrKept(row, mapping) ==
    \A key \in DOMAIN row :
        IsNone(key, row[key]) =>
            IF key \in COLUMNS_TO_OMIT_IF_NONE THEN key \notin DOMAIN mapping
            ELSE key \in DOMAIN mapping /\ IsNone(key, mapping[key])

StepsAgree ==
    (call.op = "get_tasks" /\ call.pc = "done") => result = get_tasks(db, call.a)

\* C15: when get_tasks raises ValueError for a value outside an enumerated
\* set (type, status, start, index) or for a malformed offset, it has run no
\* query during the call, whatever the uuid and the tag are.
C15_FailsBeforeQuery ==
    (/\ call.op = "get_tasks" /\ call.pc = "done"
     /\ result.kind = "ValueError"
     /\ result.value.parameter \in {"type", "status", "start", "index", "last",
                                     "offset", "int"})
        => call.queries = 0

\* the tasks a call of tasks returned: the list, or the one task of a uuid
Returned == IF call.uuid = None THEN result.value ELSE <<result.value>>

InTrashedProject(d, u) ==
    \/ d.TMTask[u].project # NULL /\ d.TMTask[d.TMTask[u].project].trashed = 1
    \/ /\ d.TMTask[u].actionGroup # NULL
       /\ d.TMTask[d.TMTask[u].actionGroup].project # NULL
       /\ d.TMTask[d.TMTask[d.TMTask[u].actionGroup].project].trashed = 1

\* C17: the task listing in the filter-set form never returns a task whose
\* project is trashed, nor a task whose heading's project is trashed,
\* whatever the task's own trashed state and the trashed filter are.
C17_NoneFromTrashedProject ==
    (Listing("tasks") /\ call.uuid = None /\ IsOk(result)) =>
        \A i \in DOMAIN result.value : ~InTrashedProject(db, result.value[i].uuid)

\* the tasks above a set of tasks: their projects and headings, and the
\* projects and headings of these, n times over
RECURSIVE Above(_, _, _)
Above(d, tasks_below, n) ==
    IF n = 0 THEN {}
    ELSE LET up == ({d.TMTask[u].project : u \in tasks_below}
                        \cup {d.TMTask[u].actionGroup : u \in tasks_below}) \ {NULL}
         IN  up \cup Above(d, up, n - 1)

\* no task is its own project or heading, directly or through a chain
Acyclic(d) ==
    \A u \in DOMAIN d.TMTask : u \notin Above(d, {u}, Cardinality(DOMAIN d.TMTask))

Max(S) == CHOOSE n \in S : \A m \in S : m <= n

\* the levels of children attached below an entity: its items and their
\* children, or its checklist
RECURSIVE Depth(_)
Depth(entity) ==
    IF "items" \in DOMAIN entity /\ entity.items # <<>>
    THEN 1 + Max({Depth(entity.items[i]) : i \in DOMAIN entity.items})
    ELSE IF "checklist" \in DOMAIN entity /\ entity.checklist.t = "list"
                /\ entity.checklist.v # <<>>
    THEN 1
    ELSE 0

\* the entities a call returned: the list, or the one entity asked for
Entities ==
    IF call.uuid # None \/ (call.op = "tags" /\ call.title # None)
    THEN <<result.value>> ELSE result.value

PositionsOf(list, u) == {i \in DOMAIN list : list[i].uuid = u}

\* C19: the list returned by the task listing holds each task at most once,
\* also when the task has several tags and several checklist items, and an
\* open task matching the filters (none, or a tag) stands in it exactly once.
C19_EachTaskOnce ==
    (Listing("tasks") /\ call.uuid = None /\ IsOk(result)) =>
        /\ \A u \in DOMAIN db.TMTask : Cardinality(PositionsOf(result.value, u)) <= 1
        /\ call.kwargs = NoKwargs =>
                \A u \in DOMAIN db.TMTask :
                    IsOpen(db, u) => Cardinality(PositionsOf(result.value, u)) = 1
        /\ (DOMAIN call.kwargs = {"tag"} /\ call.kwargs.tag.t = "str") =>
                \A u \in TasksTagged(db, call.kwargs.tag.v) :
                    IsOpen(db, u) => Cardinality(PositionsOf(result.value, u)) = 1

\* a listing that holds a to-do with two tags and two checklist items
C19_SeveralTagsAndItems ==
    /\ Listing("tasks") /\ call.uuid = None /\ IsOk(result)
    /\ Cardinality({tt \in db.TMTaskTag : tt.tasks = T1}) = 2
    /\ Cardinality({c \in DOMAIN db.TMChecklistItem :
                        db.TMChecklistItem[c].task = T1}) = 2
    /\ PositionsOf(result.value, T1) # {}

====
